---------------------------- MODULE Spec2Model ----------------------------
(***************************************************************************)
(* A model of the smartharvester planting tracker.                         *)
(*                                                                         *)
(*  - The plan calculator (tracker/plan_calculator.py, calculate_plan) is   *)
(*    a pure function; it is the operator calculate_plan below and is      *)
(*    exercised by the specification SpecCalc, whose initial states draw   *)
(*    the arguments from bounded sets.                                     *)
(*  - The views index and save_planting (tracker/views.py) with the        *)
(*    DynamoDB helper they call (tracker/dynamodb_helper.py) are the       *)
(*    actions of the specification Spec.                                   *)
(*  - The planting views add, save, edit, update and delete                *)
(*    (tracker/views.py) are the actions of SpecViews, one request from a  *)
(*    session and a table that hold earlier plantings.                     *)
(*  - CognitoTokenMiddleware (tracker/middleware.py) is the action of      *)
(*    SpecAuth.                                                            *)
(*  - The Cognito post confirmation trigger (lambda/) and the helpers      *)
(*    get_user_notification_preference, save_planting_to_dynamodb and      *)
(*    load_user_plantings called on their own are the actions of           *)
(*    SpecHelper, one call on arguments drawn from bounded sets.           *)
(*                                                                         *)
(* Python values are represented as follows.                               *)
(*   str   a sequence of one-character strings (so that lower(), title()   *)
(*         and int() can be computed), except task titles and ids, which   *)
(*         are only copied and compared and are TLA+ strings               *)
(*   date  its proleptic Gregorian ordinal (date.toordinal()), an integer  *)
(*         in DateMin..DateMax                                             *)
(*   dict  a record, or (when the keys are data) a sequence of             *)
(*         [key, value] records in insertion order                         *)
(*   list  a sequence                                                      *)
(***************************************************************************)
EXTENDS Integers, Sequences, FiniteSets

VARIABLES
    \* ---- one call of calculate_plan (SpecCalc)
    crop_name,        \* argument crop_name
    planting_date,    \* argument planting_date (a date)
    plant_data,       \* argument plant_data (the reference table)
    result,           \* what the call produced: a plan or an exception
    pc,               \* "call" before the call, "done" after it
    \* ---- the web application (Spec)
    session,          \* session['user_plantings'] of the browser session
    dynamo,           \* the items of the DynamoDB plantings table
    response,         \* what the last request produced
    nextId,           \* number of uuid4() planting ids drawn so far
    \* ---- one request through CognitoTokenMiddleware (SpecAuth)
    tokens,           \* the token keys of the session
    mw,               \* what the middleware did with the last request
    \* ---- one call of a function on its own (SpecHelper)
    call,             \* the function called and its arguments
    ret               \* what the call returned and what it did

vars == <<crop_name, planting_date, plant_data, result, pc,
          session, dynamo, response, nextId, tokens, mw, call, ret>>

calcVars == <<crop_name, planting_date, plant_data, result, pc>>
appVars == <<session, dynamo, response, nextId>>
authVars == <<tokens, mw>>
callVars == <<call, ret>>

\* The variables of the parts a specification does not use stay empty.
Unused(v) ==
    /\ "auth" \in v => tokens = <<>> /\ mw = <<>>
    /\ "call" \in v => call = <<>> /\ ret = <<>>

-----------------------------------------------------------------------------
(* Bounds of the model *)

\* longest care_schedule drawn for a call of calculate_plan
MaxSchedule == 2

\* most entries of a reference table (flat keys, or plants of the old array)
MaxPlants == 2

-----------------------------------------------------------------------------
(* Python str: lower(), title() *)

\* the cased characters of the model's alphabet, as <<lower, upper>> pairs
CasePairs == { <<"a", "A">>, <<"b", "B">>, <<"p", "P">>, <<"l", "L">>,
               <<"n", "N">>, <<"t", "T">>, <<"s", "S">>, <<"i", "I">> }

IsCased(c) == \E p \in CasePairs : c = p[1] \/ c = p[2]

LowerChar(c) ==
    IF \E p \in CasePairs : p[2] = c
    THEN (CHOOSE p \in CasePairs : p[2] = c)[1]
    ELSE c

UpperChar(c) ==
    IF \E p \in CasePairs : p[1] = c
    THEN (CHOOSE p \in CasePairs : p[1] = c)[2]
    ELSE c

\* str.lower()
Lower(s) == [i \in 1..Len(s) |-> LowerChar(s[i])]

\* str.title(): a cased character is upper-cased when the character before
\* it is not cased (or there is none), lower-cased otherwise
Title(s) ==
    [i \in 1..Len(s) |->
        IF i > 1 /\ IsCased(s[i - 1]) THEN LowerChar(s[i]) ELSE UpperChar(s[i])]

\* the literal 'plants'
PLANTS == <<"p", "l", "a", "n", "t", "s">>

-----------------------------------------------------------------------------
(* Python int(): conversion of a days_after_planting value *)

Digits == <<"0", "1", "2", "3", "4", "5", "6", "7", "8", "9">>

IsDigit(c) == \E i \in 1..10 : Digits[i] = c

DigitVal(c) == (CHOOSE i \in 1..10 : Digits[i] = c) - 1

RECURSIVE StripLeft(_)
StripLeft(s) ==
    IF s # <<>> /\ Head(s) = " " THEN StripLeft(Tail(s)) ELSE s

RECURSIVE StripRight(_)
StripRight(s) ==
    IF s # <<>> /\ s[Len(s)] = " " THEN StripRight(SubSeq(s, 1, Len(s) - 1)) ELSE s

RECURSIVE DigitsVal(_, _)
DigitsVal(s, acc) ==
    IF s = <<>> THEN acc ELSE DigitsVal(Tail(s), 10 * acc + DigitVal(Head(s)))

\* int(str): surrounding whitespace is stripped, then an optional sign and
\* one or more digits; anything else is a ValueError
ParseInt(str) ==
    LET s    == StripRight(StripLeft(str))
        sign == IF s # <<>> /\ Head(s) = "-" THEN -1 ELSE 1
        body == IF s # <<>> /\ Head(s) \in {"-", "+"} THEN Tail(s) ELSE s
    IN  IF body # <<>> /\ \A i \in 1..Len(body) : IsDigit(body[i])
        THEN [ok |-> TRUE, n |-> sign * DigitsVal(body, 0)]
        ELSE [ok |-> FALSE, n |-> 0]

\* int(float) truncates toward zero; a float is held in tenths
TruncTenths(t) == IF t >= 0 THEN t \div 10 ELSE -((-t) \div 10)

\* A days_after_planting value v is [k, n, s]:
\*   k = "missing"  the key is absent        k = "null"   None
\*   k = "str"      the string s             k = "int"    the integer n
\*   k = "float"    the float n/10           k = "list"   a list (no number)
\* IntOf is int(v): ok is FALSE where int() raises ValueError or TypeError
IntOf(v) ==
    CASE v.k = "int"   -> [ok |-> TRUE, n |-> v.n]
      [] v.k = "float" -> [ok |-> TRUE, n |-> TruncTenths(v.n)]
      [] v.k = "str"   -> ParseInt(v.s)
      [] OTHER         -> [ok |-> FALSE, n |-> 0]

\* the slip "if not days_after": 0 and 0.0 count as no offset too
NoOffset_Falsy(v) ==
    \/ v.k \in {"missing", "null"}
    \/ (v.k = "str" /\ v.s = <<>>)
    \/ (v.k \in {"int", "float"} /\ v.n = 0)

\* days_after is None or days_after == '' (plan_calculator.py line 73)
NoOffset(v) == v.k \in {"missing", "null"} \/ (v.k = "str" /\ v.s = <<>>)

-----------------------------------------------------------------------------
(* datetime.date *)

\* date.min.toordinal() and date.max.toordinal()
DateMin == 1
DateMax == 3652059

\* timedelta(days=n) raises OverflowError beyond this magnitude
TimedeltaMax == 999999999

\* the slip planting_date - timedelta(days=days)
AddDays_Subtract(d, days) ==
    IF days < -TimedeltaMax \/ days > TimedeltaMax
       \/ d - days < DateMin \/ d - days > DateMax
    THEN [ok |-> FALSE, date |-> 0]
    ELSE [ok |-> TRUE, date |-> d - days]

\* planting_date + timedelta(days=days): OverflowError when the timedelta or
\* the resulting date is out of range
AddDays(d, days) ==
    IF days < -TimedeltaMax \/ days > TimedeltaMax
       \/ d + days < DateMin \/ d + days > DateMax
    THEN [ok |-> FALSE, date |-> 0]
    ELSE [ok |-> TRUE, date |-> d + days]

-----------------------------------------------------------------------------
(* The reference table (data.json) and calculate_plan *)

\* A plant's dict: keys is the set of keys it holds among 'name',
\* 'care_schedule' and any other key ("other"); name and cs are the values
\* of 'name' and 'care_schedule' (<<>> when the key is absent)
EmptyDict == [keys |-> {}, name |-> <<>>, cs |-> <<>>]

\* A value of the table: a plant's dict d (k = "dict"), the list l of plant
\* dicts of the old structure (k = "list"), or None (k = "none")
DictValue(d) == [k |-> "dict", d |-> d, l |-> <<>>]
ListValue(l) == [k |-> "list", d |-> EmptyDict, l |-> l]
None == [k |-> "none", d |-> EmptyDict, l |-> <<>>]

\* Python truth value of a table value: None, {} and [] are false
Truthy(v) ==
    CASE v.k = "dict" -> v.d.keys # {}
      [] v.k = "list" -> v.l # <<>>
      [] OTHER        -> FALSE

\* key in plant_data
HasKey(data, key) == \E i \in 1..Len(data) : data[i].key = key

\* plant_data[key]
GetKey(data, key) == data[CHOOSE i \in 1..Len(data) : data[i].key = key].value

\* plan_calculator.py lines 43-47: the first key, in the dict's order, that
\* equals crop when both are lower-cased
FirstLowerMatch(crop, data) ==
    LET hits == {i \in 1..Len(data) : Lower(data[i].key) = Lower(crop)}
    IN  IF hits = {} THEN None
        ELSE data[CHOOSE i \in hits : \A j \in hits : i <= j].value

\* the title-case step left out
Lookup_NoTitle(crop, data) ==
    IF HasKey(data, crop) THEN GetKey(data, crop)
    ELSE FirstLowerMatch(crop, data)

\* plan_calculator.py lines 34-47: exact key, then title-cased key, then the
\* first key equal ignoring case
Lookup(crop, data) ==
    IF HasKey(data, crop) THEN GetKey(data, crop)
    ELSE IF HasKey(data, Title(crop)) THEN GetKey(data, Title(crop))
    ELSE FirstLowerMatch(crop, data)

\* plan_calculator.py lines 51-54: the first plant of the 'plants' list whose
\* name equals crop ignoring case; found stays as it is when there is none
OldStructureMatch(crop, plants, found) ==
    LET hits == {i \in 1..Len(plants) :
                    Lower(IF "name" \in plants[i].keys THEN plants[i].name ELSE <<>>)
                        = Lower(crop)}
    IN  IF hits = {} THEN found
        ELSE DictValue(plants[CHOOSE i \in hits : \A j \in hits : i <= j])

\* plan_calculator.py lines 31-54: plant_info, or the exception of the search
\* (iterating a non-empty dict stored under 'plants' yields its keys, and a
\* str has no get)
FindPlant(crop, data) ==
    LET flat == Lookup(crop, data)
    IN  IF ~Truthy(flat) /\ HasKey(data, PLANTS)
        THEN LET pv == GetKey(data, PLANTS)
             IN  CASE pv.k = "list" -> [exc |-> "none", info |-> OldStructureMatch(crop, pv.l, flat)]
                   [] pv.k = "dict" /\ pv.d.keys # {} -> [exc |-> "AttributeError", info |-> None]
                   [] OTHER -> [exc |-> "none", info |-> flat]
        ELSE [exc |-> "none", info |-> flat]

\* what a call produces: the plan it returns, or the exception it raises
Returns(plan) == [exc |-> "none", plan |-> plan]
Raises(e) == [exc |-> e, plan |-> <<>>]

\* task_item.get('task_title', '')
TaskTitle(item) == IF item.has_title THEN item.task_title ELSE ""

\* plan_calculator.py lines 68-86: the loop over care_schedule. An entry
\* without offset is skipped, an entry whose int() raises ValueError or
\* TypeError is skipped, an OverflowError of the date addition is not caught
RECURSIVE BuildPlan(_, _, _)
BuildPlan(cs, date, plan) ==
    IF cs = <<>> THEN Returns(plan)
    ELSE LET item == Head(cs)
             days == IntOf(item.days)
             due  == AddDays(date, days.n)
         IN  IF NoOffset(item.days) \/ ~days.ok
             THEN BuildPlan(Tail(cs), date, plan)
             ELSE IF ~due.ok THEN Raises("OverflowError")
             ELSE BuildPlan(Tail(cs), date,
                            Append(plan, [task |-> TaskTitle(item), due_date |-> due.date]))

\* an unstable sort: an entry goes before the entries due on its date
InsertByDate_Unstable(sorted, e) ==
    LET n == Cardinality({i \in 1..Len(sorted) : sorted[i].due_date < e.due_date})
    IN  SubSeq(sorted, 1, n) \o <<e>> \o SubSeq(sorted, n + 1, Len(sorted))

\* list.sort(key=due_date) is stable: an entry goes behind every entry that
\* is not due later
InsertByDate(sorted, e) ==
    LET n == Cardinality({i \in 1..Len(sorted) : sorted[i].due_date <= e.due_date})
    IN  SubSeq(sorted, 1, n) \o <<e>> \o SubSeq(sorted, n + 1, Len(sorted))

RECURSIVE SortPlan(_)
SortPlan(plan) ==
    IF plan = <<>> THEN <<>>
    ELSE InsertByDate(SortPlan(SubSeq(plan, 1, Len(plan) - 1)), plan[Len(plan)])

\* plan_calculator.py lines 61-92: the plan of a truthy plant_info
PlanOfInfo(info, date) ==
    IF info.k = "list" THEN Raises("AttributeError")
    ELSE LET cs == IF "care_schedule" \in info.d.keys THEN info.d.cs ELSE <<>>
         IN  IF cs = <<>> THEN Returns(<<>>)
             ELSE LET built == BuildPlan(cs, date, <<>>)
                  IN  IF built.exc # "none" THEN built
                      ELSE Returns(SortPlan(built.plan))

\* plan_calculator.py lines 12-92
calculate_plan(crop, date, data) ==
    IF data = <<>> THEN Returns(<<>>)
    ELSE LET found == FindPlant(crop, data)
         IN  IF found.exc # "none" THEN Raises(found.exc)
             ELSE IF ~Truthy(found.info) THEN Returns(<<>>)
             ELSE PlanOfInfo(found.info, date)

-----------------------------------------------------------------------------
(* date.isoformat() and date.fromisoformat() *)

IsLeap(y) == (y % 4 = 0 /\ y % 100 # 0) \/ y % 400 = 0

DaysInMonth(y, m) ==
    CASE m = 2 -> IF IsLeap(y) THEN 29 ELSE 28
      [] m \in {4, 6, 9, 11} -> 30
      [] OTHER -> 31

\* days of the year before the first of month m
DaysBeforeMonth(y, m) ==
    <<0, 31, 59, 90, 120, 151, 181, 212, 243, 273, 304, 334>>[m]
        + (IF m > 2 /\ IsLeap(y) THEN 1 ELSE 0)

\* days before January 1st of year y
DaysBeforeYear(y) ==
    (y - 1) * 365 + (y - 1) \div 4 - (y - 1) \div 100 + (y - 1) \div 400

\* date(y, m, d).toordinal()
ToOrdinal(y, m, d) == DaysBeforeYear(y) + DaysBeforeMonth(y, m) + d

\* date.fromordinal(n) as <<year, month, day>>
FromOrdinal(n) ==
    LET n0   == n - 1
        n400 == n0 \div 146097
        r400 == n0 % 146097
        n100 == r400 \div 36524
        r100 == r400 % 36524
        n4   == r100 \div 1461
        r4   == r100 % 1461
        n1   == r4 \div 365
        r1   == r4 % 365
        year == n400 * 400 + 1 + n100 * 100 + n4 * 4 + n1
    IN  IF n1 = 4 \/ n100 = 4 THEN <<year - 1, 12, 31>>
        ELSE LET guess == (r1 + 50) \div 32
                 month == IF DaysBeforeMonth(year, guess) > r1 THEN guess - 1 ELSE guess
             IN  <<year, month, r1 - DaysBeforeMonth(year, month) + 1>>

\* A JSON value holding a date: the string 'YYYY-MM-DD' with the numbers
\* y, m, d (k = "str"), any other text (k = "text"), null (k = "null"), or
\* no value at all, the key being absent (k = "missing")
IsoStr(y, m, d) == [k |-> "str", y |-> y, m |-> m, d |-> d]
TextStr == [k |-> "text", y |-> 0, m |-> 0, d |-> 0]
NullValue == [k |-> "null", y |-> 0, m |-> 0, d |-> 0]
MissingValue == [k |-> "missing", y |-> 0, m |-> 0, d |-> 0]

\* date.isoformat()
IsoFormat(date) ==
    LET ymd == FromOrdinal(date) IN IsoStr(ymd[1], ymd[2], ymd[3])

\* date.fromisoformat(s) of a string s: the date, or ValueError (ok FALSE)
FromIsoFormat(s) ==
    IF /\ s.k = "str"
       /\ s.y >= 1 /\ s.y <= 9999
       /\ s.m >= 1 /\ s.m <= 12
       /\ s.d >= 1 /\ s.d <= DaysInMonth(s.y, s.m)
    THEN [ok |-> TRUE, date |-> ToOrdinal(s.y, s.m, s.d)]
    ELSE [ok |-> FALSE, date |-> 0]

-----------------------------------------------------------------------------
(* SpecCalc: the arguments of a call of calculate_plan, and the call *)

SeqsUpTo(S, n) == UNION {[1..m -> S] : m \in 0..n}

\* days_after_planting values drawn for a care_schedule entry
OffMissing == [k |-> "missing", n |-> 0, s |-> <<>>]
OffNull == [k |-> "null", n |-> 0, s |-> <<>>]
OffStr(s) == [k |-> "str", n |-> 0, s |-> s]
OffInt(n) == [k |-> "int", n |-> n, s |-> <<>>]
OffFloat(tenths) == [k |-> "float", n |-> tenths, s |-> <<>>]
OffList == [k |-> "list", n |-> 0, s |-> <<>>]

OffsetValues ==
    { OffMissing, OffNull, OffStr(<<>>),
      OffInt(-1), OffInt(0), OffInt(1),
      OffFloat(19), OffFloat(-15),
      OffStr(<<" ", "2">>), OffStr(<<"1", ".", "5">>), OffList }

TaskItem(has, title, days) == [has_title |-> has, task_title |-> title, days |-> days]

TaskItems ==
    {TaskItem(TRUE, title, d) : title \in {"water", "harvest"}, d \in OffsetValues}
    \cup {TaskItem(FALSE, "", d) : d \in OffsetValues}

Schedules == SeqsUpTo(TaskItems, MaxSchedule)

\* a plant's dict with a care_schedule, and one with other keys only
PlantDict(name, cs) ==
    [keys |-> (IF name = <<>> THEN {} ELSE {"name"}) \cup {"care_schedule", "other"},
     name |-> name, cs |-> cs]
NoScheduleDict(name) ==
    [keys |-> (IF name = <<>> THEN {} ELSE {"name"}) \cup {"other"},
     name |-> name, cs |-> <<>>]

\* the planting dates drawn: the first and the last date there is, and one
\* in between
MidDate == DateMax \div 5
CalcDates == {DateMin, MidDate, DateMax}

\* crop names and table keys drawn for the name matching
KeyNames ==
    { <<"a", "a">>, <<"a", "A">>, <<"A", "a">>, <<"A", "A">>,
      <<"a", " ", "b">>, <<"A", " ", "b">>, <<"A", " ", "B">> }
CropNames == KeyNames \cup { <<"b">>, PLANTS, Title(PLANTS) }

ScheduleA == <<TaskItem(TRUE, "water", OffInt(1))>>
ScheduleB == <<TaskItem(TRUE, "harvest", OffInt(2)), TaskItem(TRUE, "sow", OffInt(0))>>

\* the flat structure: {crop name: info}, the keys distinct
FlatInfos == {PlantDict(<<>>, ScheduleA), PlantDict(<<>>, ScheduleB),
              NoScheduleDict(<<>>), EmptyDict}
FlatEntries == {[key |-> k, value |-> DictValue(d)] : k \in KeyNames, d \in FlatInfos}
FlatTables ==
    {t \in SeqsUpTo(FlatEntries, MaxPlants) :
        \A i, j \in 1..Len(t) : t[i].key = t[j].key => i = j}

\* the old structure: {'plants': [{name, care_schedule, ...}, ...]}
OldPlants ==
    {PlantDict(n, ScheduleA) : n \in KeyNames}
    \cup {PlantDict(n, ScheduleB) : n \in KeyNames}
    \cup {NoScheduleDict(n) : n \in KeyNames}
OldTables ==
    {<<[key |-> PLANTS, value |-> ListValue(l)]>> : l \in SeqsUpTo(OldPlants, MaxPlants)}

\* no call under way (the value of the call's variables under Spec)
NoResult == [exc |-> "none", plan |-> <<>>]

\* the application at rest (the value of its variables under SpecCalc)
NoDisplay == <<>>
NoSave == [user_id |-> "", planting_id |-> 0]
NoResponse ==
    [op |-> "none", status |-> "none", method |-> "", user_id |-> "",
     crop_name |-> <<>>, planting_date |-> MissingValue, plan_module |-> "",
     put_ok |-> FALSE, planting_id |-> 0, load |-> "", upload |-> "none",
     loaded |-> <<>>, past |-> NoDisplay, upcoming |-> NoDisplay,
     ongoing |-> NoDisplay, after_save |-> NoSave]

\* a call over a rich care_schedule under one key
InitSchedule ==
    /\ crop_name \in {<<"a", "a">>, <<"A", "A">>}
    /\ planting_date \in CalcDates
    /\ \E cs \in Schedules :
          plant_data = <<[key |-> <<"A", "a">>, value |-> DictValue(PlantDict(<<>>, cs))]>>

\* a call over a rich table
InitMatch ==
    /\ plant_data \in OldTables \cup FlatTables
    /\ crop_name \in CropNames
    /\ planting_date = MidDate

InitCalc ==
    /\ InitMatch \/ InitSchedule
    /\ result = NoResult
    /\ pc = "call"
    /\ session = <<>>
    /\ dynamo = <<>>
    /\ response = NoResponse
    /\ nextId = 0
    /\ Unused({"auth", "call"})

\* the call calculate_plan(crop_name, planting_date, plant_data)
Calculate ==
    /\ pc = "call"
    /\ result' = calculate_plan(crop_name, planting_date, plant_data)
    /\ pc' = "done"
    /\ UNCHANGED <<crop_name, planting_date, plant_data>>
    /\ UNCHANGED <<appVars, authVars, callVars>>

NextCalc == Calculate

SpecCalc == InitCalc /\ [][NextCalc]_vars

-----------------------------------------------------------------------------
(* The web application: requests, plantings, DynamoDB *)

\* most plantings save_planting records in one behaviour
MaxSaves == 2

\* date.today(), the same for every request of a behaviour
Today == ToOrdinal(2024, 6, 15)

\* Who a request comes from: what CognitoTokenMiddleware attached
\* (request.cognito_user_id, the username of request.cognito_payload), the
\* user_id key of the session, and Django's request.user ("" where absent)
Identity(cog, pname, suid, pk, dname) ==
    [cognito_user_id |-> cog, payload_username |-> pname,
     session_user_id |-> suid, django_pk |-> pk, django_username |-> dname]

Anonymous == Identity("", "", "", "", "")
CognitoUser == Identity("sub-1", "alice", "", "", "")
DjangoUser == Identity("", "", "", "7", "carol")
Identities == {Anonymous, CognitoUser, DjangoUser}

\* f"django_{pk}"
DjangoId(pk) == IF pk = "7" THEN "django_7" ELSE "django_"

\* dynamodb_helper.get_user_id_from_token(request) of a request without
\* attached payload: the session's user_id, else django_<pk>, else None ("")
get_user_id_from_token(req) ==
    IF req.session_user_id # "" THEN req.session_user_id
    ELSE IF req.django_pk # "" THEN DjangoId(req.django_pk)
    ELSE ""

\* views.py lines 88-110, 349-376: the user id of the request, "" for None
ResolveUserId(req) ==
    IF req.cognito_user_id # "" THEN req.cognito_user_id
    ELSE get_user_id_from_token(req)

\* views.py lines 351-376 and 429: the username stored with a planting
ResolveUsername(req) ==
    IF req.cognito_user_id # "" /\ req.payload_username # ""
    THEN req.payload_username
    ELSE req.django_username

\* data.json as the views read it (load_plant_data): the old structure,
\* whose 'plants' list add_planting_view reads
Basil == <<"B", "a", "s", "i", "l">>
BasilSchedule ==
    << TaskItem(TRUE, "water", OffInt(3)),
       TaskItem(TRUE, "mulch", OffNull),
       TaskItem(TRUE, "harvest", OffInt(10)) >>
load_plant_data ==
    <<[key |-> PLANTS, value |-> ListValue(<<PlantDict(Basil, BasilSchedule)>>)]>>

\* views.py lines 21-44: the callable _get_calculate_plan returns. The plan
\* function of smartharvest_plan.plan when that module can be imported
\* (taken to compute what tracker/plan_calculator.py computes), else the
\* fallback, which returns []
PlanFunction(module, crop, date, data) ==
    IF module = "module" THEN calculate_plan(crop, date, data) ELSE Returns(<<>>)

\* views.py lines 416-418: due_date of every task to its ISO string
ConvertDueDates_Truncated(plan) ==
    [i \in 1..(Len(plan) - 1) |->
        [task |-> plan[i].task, due_date |-> IsoFormat(plan[i].due_date)]]
ConvertDueDates(plan) ==
    [i \in 1..Len(plan) |->
        [task |-> plan[i].task, due_date |-> IsoFormat(plan[i].due_date)]]

\* views.py lines 421-434: the planting dict (batch_id, notes and image_url,
\* which are copied from the request and decide nothing here, are left out)
NewPlanting(req, crop, date, plan, id) ==
    [crop_name |-> crop, planting_date |-> IsoFormat(date), plan |-> plan,
     user_id |-> ResolveUserId(req),
     username |-> ResolveUsername(req), planting_id |-> id]

\* table.put_item(Item=item): the item with the same planting_id is replaced
PutItem(table, item) ==
    IF \E i \in 1..Len(table) : table[i].planting_id = item.planting_id
    THEN [i \in 1..Len(table) |->
            IF table[i].planting_id = item.planting_id THEN item ELSE table[i]]
    ELSE Append(table, item)

\* dynamodb_helper.py lines 224-267, save_planting_to_dynamodb: the id it
\* returns (0 for None) and the table afterwards; put_ok is whether put_item
\* succeeds (no ClientError or other exception)
save_planting_to_dynamodb(table, planting, put_ok) ==
    IF planting.user_id = "" /\ planting.username = ""
    THEN [id |-> 0, table |-> table]
    ELSE IF put_ok THEN [id |-> planting.planting_id, table |-> PutItem(table, planting)]
    ELSE [id |-> 0, table |-> table]

\* dynamodb_helper.py lines 331-369, load_user_plantings (the definition in
\* force, the second one): the GSI query, on its failure the filtered scan,
\* on any other failure []. how is "gsi" (the query succeeds), "scan" (the
\* query fails, the scan succeeds) or "error" (both fail)
load_user_plantings(table, user_id, how) ==
    LET Mine(item) == item.user_id = user_id
    IN  IF how \in {"gsi", "scan"} THEN SelectSeq(table, Mine) ELSE <<>>

-----------------------------------------------------------------------------
(* The views save_planting and index *)

\* what the form posts: crop_name ('' or absent is <<>>) and planting_date
PostCrops == { <<>>, <<"b", "a", "s", "i", "l">>, PLANTS }
PostDates == { MissingValue, TextStr, IsoFormat(Today - 5) }

\* the response to a save_planting request, with what the view read of it;
\* upload is what became of the posted image: "none" (no file posted, or
\* the view never got to it), "ok" (upload_planting_image stored it in S3)
\* or "fail" (upload_planting_image returned '' or raised)
SaveResponse(status, method, req, crop, date_str, module, put_ok, id, image) ==
    [op |-> "save_planting", status |-> status, method |-> method,
     user_id |-> ResolveUserId(req), crop_name |-> crop,
     planting_date |-> date_str, plan_module |-> module,
     put_ok |-> put_ok, planting_id |-> id, load |-> "", upload |-> image,
     loaded |-> <<>>, past |-> NoDisplay, upcoming |-> NoDisplay,
     ongoing |-> NoDisplay, after_save |-> NoSave]

\* views.py lines 403-454, save_planting from the validation of the form on:
\* redirect to index without saving (a required field missing), an uncaught
\* exception (the ValueError of fromisoformat, or what the plan function
\* raises), or the planting written to DynamoDB (best effort) and appended
\* to the session. module is which callable _get_calculate_plan returns,
\* put_ok whether put_item succeeds
SaveForm(req, crop, date_str, image) ==
    LET parsed == FromIsoFormat(date_str)
        id     == nextId + 1
        Unsaved(status, module) ==
            /\ response' = SaveResponse(status, "POST", req, crop, date_str, module,
                                        FALSE, 0, image)
            /\ UNCHANGED <<session, dynamo, nextId>>
    IN  IF crop = <<>> \/ date_str.k = "missing" THEN Unsaved("redirect_index", "")
        ELSE IF ~parsed.ok THEN Unsaved("ValueError", "")
        ELSE \E module \in {"module", "fallback"} :
            LET calculated == PlanFunction(module, crop, parsed.date, load_plant_data)
                new_planting ==
                    NewPlanting(req, crop, parsed.date, ConvertDueDates(calculated.plan), id)
            IN  IF calculated.exc # "none" THEN Unsaved(calculated.exc, module)
                ELSE \E put_ok \in BOOLEAN :
                    /\ dynamo' = save_planting_to_dynamodb(dynamo, new_planting, put_ok).table
                    /\ session' = Append(session, new_planting)
                    /\ nextId' = id
                    /\ response' = SaveResponse("saved", "POST", req, crop, date_str,
                                                module, put_ok, id, image)

\* views.py lines 332-454, save_planting, for one request: a request that
\* is not a POST is redirected to index, one without user to login; of any
\* other the posted image is uploaded (lines 395-401) and the form handled
SavePlanting ==
    /\ nextId < MaxSaves
    /\ \E method \in {"GET", "POST"}, req \in Identities :
          IF method # "POST" \/ ResolveUserId(req) = ""
          THEN /\ response' =
                    SaveResponse(IF method # "POST" THEN "redirect_index" ELSE "redirect_login",
                                 method, req, <<>>, MissingValue, "", FALSE, 0, "none")
               /\ UNCHANGED <<session, dynamo, nextId>>
          ELSE \E date_str \in PostDates, crop \in PostCrops,
                  image \in {"none", "ok", "fail"} :
                  SaveForm(req, crop, date_str, image)
    /\ UNCHANGED <<calcVars, authVars, callVars>>

\* views.py lines 115-142: the plantings index works on. DynamoDB's when
\* there is a user id and the load returns some, else the session's, which
\* are filtered when there is a user id. The filter reads the name username,
\* which index never binds: NameError as soon as a session planting has
\* another user_id (exc is then "NameError")
UserPlantings(req, how) ==
    LET user_id == ResolveUserId(req)
        loaded  == IF user_id # "" THEN load_user_plantings(dynamo, user_id, how)
                   ELSE <<>>
        Mine(p) == p.user_id = user_id
    IN  IF loaded # <<>> THEN [exc |-> "none", plantings |-> loaded]
        ELSE IF session = <<>> THEN [exc |-> "none", plantings |-> <<>>]
        ELSE IF user_id = "" THEN [exc |-> "none", plantings |-> session]
        ELSE IF \E i \in 1..Len(session) : ~Mine(session[i])
             THEN [exc |-> "NameError", plantings |-> <<>>]
        ELSE [exc |-> "none", plantings |-> session]

\* views.py lines 165-172: a task's due_date after normalisation, as
\* [has, date]; has is FALSE for an absent, null or unparseable due_date
DueDate(task) ==
    LET parsed == FromIsoFormat(task.due_date)
    IN  IF task.due_date.k \in {"str", "text"} /\ parsed.ok
        THEN [has |-> TRUE, date |-> parsed.date]
        ELSE [has |-> FALSE, date |-> 0]

\* views.py line 175: the due date of the last task that has one
RECURSIVE HarvestDate(_)
HarvestDate(plan) ==
    IF plan = <<>> THEN [has |-> FALSE, date |-> 0]
    ELSE LET last == DueDate(plan[Len(plan)])
         IN  IF last.has THEN last ELSE HarvestDate(SubSeq(plan, 1, Len(plan) - 1))

\* views.py lines 176-186: the list a planting with this harvest date joins
Category_Strict(harvest) ==
    IF ~harvest.has THEN "ongoing"
    ELSE IF harvest.date < Today THEN "past"
    ELSE IF harvest.date - Today < 7 THEN "upcoming"
    ELSE "ongoing"
Category(harvest) ==
    IF ~harvest.has THEN "ongoing"
    ELSE IF harvest.date < Today THEN "past"
    ELSE IF harvest.date - Today <= 7 THEN "upcoming"
    ELSE "ongoing"

\* views.py lines 148-189: what index makes of the planting at position i
\* (id i - 1); a planting whose planting_date is absent, not a string or not
\* an ISO date is left out ("skipped")
Display(plantings, i) ==
    LET p == plantings[i]
        harvest == HarvestDate(p.plan)
    IN  [id |-> i - 1, planting_id |-> p.planting_id, harvest |-> harvest,
         list |-> IF p.planting_date.k \in {"missing", "null"} THEN "skipped"
                  ELSE IF ~FromIsoFormat(p.planting_date).ok THEN "skipped"
                  ELSE Category(harvest)]

Displayed(plantings, list) ==
    LET all == [i \in 1..Len(plantings) |-> Display(plantings, i)]
        In(e) == e.list = list
    IN  SelectSeq(all, In)

\* the completed save the response reports, if it reports one
SaveOf(resp) ==
    IF resp.op = "save_planting" /\ resp.status = "saved"
    THEN [user_id |-> resp.user_id, planting_id |-> resp.planting_id]
    ELSE NoSave

\* views.py lines 71-289, index, for one request: the page with the three
\* lists, or the uncaught NameError
IndexView(req, how) ==
    LET found == UserPlantings(req, how)
    IN  [op |-> "index", status |-> IF found.exc = "none" THEN "ok" ELSE found.exc,
         method |-> "GET", user_id |-> ResolveUserId(req), crop_name |-> <<>>,
         planting_date |-> MissingValue, plan_module |-> "", put_ok |-> FALSE,
         planting_id |-> 0, load |-> how, upload |-> "none",
         loaded |-> found.plantings,
         past |-> Displayed(found.plantings, "past"),
         upcoming |-> Displayed(found.plantings, "upcoming"),
         ongoing |-> Displayed(found.plantings, "ongoing"),
         after_save |-> SaveOf(response)]

Index ==
    /\ \E req \in Identities, how \in {"gsi", "scan", "error"} :
          response' = IndexView(req, how)
    /\ UNCHANGED <<session, dynamo, nextId>>
    /\ UNCHANGED <<calcVars, authVars, callVars>>

-----------------------------------------------------------------------------
(* Spec: the application from a fresh session *)

\* Items the DynamoDB table may hold before the first request (written by
\* earlier sessions, by other clients of the table, or by hand)
Stored(id, user_id, planted, plan) ==
    [crop_name |-> Basil, planting_date |-> planted, plan |-> plan,
     user_id |-> user_id, username |-> "",
     planting_id |-> id]

Task(title, due_date) == [task |-> title, due_date |-> due_date]

Planted == IsoFormat(Today - 30)

SeedPlantings ==
    << Stored(101, "sub-1", Planted, <<Task("harvest", IsoFormat(Today - 1))>>),
       Stored(102, "sub-1", Planted, <<Task("harvest", IsoFormat(Today))>>),
       Stored(103, "sub-1", Planted, <<Task("harvest", IsoFormat(Today + 7))>>),
       Stored(104, "sub-1", Planted, <<Task("harvest", IsoFormat(Today + 8))>>),
       Stored(105, "sub-1", Planted, <<>>),
       Stored(106, "sub-1", Planted,
              <<Task("water", TextStr), Task("harvest", NullValue),
                Task("note", MissingValue)>>),
       Stored(107, "sub-1", Planted,
              <<Task("water", IsoFormat(Today + 30)), Task("harvest", IsoFormat(Today - 3)),
                Task("note", TextStr)>>),
       Stored(108, "sub-1", Planted,
              <<Task("water", IsoFormat(Today - 3)), Task("harvest", IsoStr(2024, 2, 30))>>),
       Stored(109, "sub-1", TextStr, <<Task("harvest", IsoFormat(Today + 1))>>),
       Stored(110, "sub-1", MissingValue, <<Task("harvest", IsoFormat(Today + 1))>>),
       Stored(111, "sub-1", NullValue, <<Task("harvest", IsoFormat(Today - 1))>>),
       Stored(112, "sub-1", IsoStr(2023, 2, 29), <<>>),
       Stored(113, "django_7", Planted, <<Task("harvest", IsoFormat(Today + 2))>>) >>

Init ==
    /\ crop_name = <<>>
    /\ planting_date = DateMin
    /\ plant_data = <<>>
    /\ result = NoResult
    /\ pc = "idle"
    /\ session = <<>>
    /\ dynamo \in {<<>>, SeedPlantings}
    /\ response = NoResponse
    /\ nextId = 0
    /\ Unused({"auth", "call"})

Next == SavePlanting \/ Index

Spec == Init /\ [][Next]_vars

-----------------------------------------------------------------------------
(* The views add_planting_view, edit_planting_view, update_planting and
   delete_planting *)

\* the response of one of these views to a request
ViewResponse(op, status, method, req, id, image) ==
    [NoResponse EXCEPT !.op = op, !.status = status, !.method = method,
                       !.user_id = ResolveUserId(req), !.planting_id = id,
                       !.upload = image]

\* the positions <int:planting_id> of the URLs /edit/, /update/, /delete/
Positions == {0, 1}

\* views.py lines 488-497, 675-685: the plantings edit_planting_view and
\* delete_planting index into: DynamoDB's when the load returns some, else
\* the session's, unfiltered
PlantingsOf(req, how) ==
    LET loaded == load_user_plantings(dynamo, ResolveUserId(req), how)
    IN  IF loaded # <<>> THEN loaded ELSE session

\* views.py lines 292-329, add_planting_view: the form, or the redirect to
\* login of a request without user
AddPlantingView(method, req) ==
    /\ response' = ViewResponse("add_planting_view",
                                IF ResolveUserId(req) = "" THEN "redirect_login" ELSE "ok",
                                method, req, 0, "none")
    /\ UNCHANGED <<session, dynamo, nextId>>

AddPlanting ==
    /\ \E method \in {"GET", "POST"}, req \in Identities : AddPlantingView(method, req)
    /\ UNCHANGED <<calcVars, authVars, callVars>>

\* views.py lines 456-536, edit_planting_view: the form filled with the
\* planting at the position, the redirect to index when there is none, or
\* the redirect to login of a request without user
EditPlantingView(method, req, position, how) ==
    LET plantings == PlantingsOf(req, how)
    IN  /\ response' =
              IF ResolveUserId(req) = ""
              THEN ViewResponse("edit_planting_view", "redirect_login", method, req, 0, "none")
              ELSE IF position >= Len(plantings)
              THEN ViewResponse("edit_planting_view", "redirect_index", method, req, 0, "none")
              ELSE ViewResponse("edit_planting_view", "ok", method, req,
                                plantings[position + 1].planting_id, "none")
        /\ UNCHANGED <<session, dynamo, nextId>>

EditPlanting ==
    /\ \E method \in {"GET", "POST"}, req \in Identities, position \in Positions,
          how \in {"gsi", "scan", "error"} : EditPlantingView(method, req, position, how)
    /\ UNCHANGED <<calcVars, authVars, callVars>>

\* Key={"planting_id": str(planting_id)} of update_planting: the position
\* of the URL as a string, which is the id of no planting save_planting
\* recorded (those are uuids)
PositionKey(position) == 1000 + position

\* table.update_item(Key, 'SET ...'): the attributes are set on the item
\* with the key, which is created when the table has none
UpdateItem(table, key, crop, date_str) ==
    LET Set(item) ==
            [item EXCEPT !.crop_name = IF crop = <<>> THEN @ ELSE crop,
                         !.planting_date = IF date_str.k = "missing" THEN @ ELSE date_str]
        created == [crop_name |-> <<>>, planting_date |-> MissingValue, plan |-> <<>>,
                    user_id |-> "", username |-> "", planting_id |-> key]
    IN  IF \E i \in 1..Len(table) : table[i].planting_id = key
        THEN [i \in 1..Len(table) |->
                IF table[i].planting_id = key THEN Set(table[i]) ELSE table[i]]
        ELSE Append(table, Set(created))

\* views.py lines 539-639, update_planting: not a POST, redirect to index;
\* no user, redirect to login; else the posted image is uploaded and the
\* posted fields are set on the DynamoDB item whose key is the position
\* (nothing posted: redirect to index). crop <<>> and a missing date_str are
\* fields the form does not carry. outcome is that of update_item: "ok",
\* "ClientError" (caught) or "error" (any other exception, not caught)
UpdatePlantingView(method, req, position, crop, date_str, image, outcome) ==
    LET Reply(status, upload) ==
            ViewResponse("update_planting", status, method, req, PositionKey(position), upload)
        nothing == crop = <<>> /\ date_str.k = "missing" /\ image # "ok"
    IN  IF method # "POST"
        THEN response' = Reply("redirect_index", "none") /\ UNCHANGED <<session, dynamo, nextId>>
        ELSE IF ResolveUserId(req) = ""
        THEN response' = Reply("redirect_login", "none") /\ UNCHANGED <<session, dynamo, nextId>>
        ELSE IF nothing \/ outcome = "ClientError"
        THEN response' = Reply("redirect_index", image) /\ UNCHANGED <<session, dynamo, nextId>>
        ELSE IF outcome = "error"
        THEN response' = Reply("Exception", image) /\ UNCHANGED <<session, dynamo, nextId>>
        ELSE /\ response' = Reply("updated", image)
             /\ dynamo' = UpdateItem(dynamo, PositionKey(position), crop, date_str)
             /\ UNCHANGED <<session, nextId>>

UpdatePlanting ==
    /\ \E method \in {"GET", "POST"}, req \in Identities, position \in Positions,
          crop \in {<<>>, Basil}, date_str \in {MissingValue, IsoFormat(Today - 5)},
          image \in {"none", "ok", "fail"}, outcome \in {"ok", "ClientError", "error"} :
            UpdatePlantingView(method, req, position, crop, date_str, image, outcome)
    /\ UNCHANGED <<calcVars, authVars, callVars>>

\* dynamodb_helper.py lines 372-384, delete_planting_from_dynamodb: the
\* table afterwards; deleted is whether delete_item succeeds
delete_planting_from_dynamodb(table, id, deleted) ==
    LET Others(item) == item.planting_id # id
    IN  IF deleted THEN SelectSeq(table, Others) ELSE table

\* a list without the element at the position (list.pop(position))
Pop(list, position) ==
    SubSeq(list, 1, position) \o SubSeq(list, position + 2, Len(list))

\* views.py lines 641-721, delete_planting: not a POST, redirect to index;
\* no user, redirect to login; else the planting at the position (of the
\* plantings DynamoDB returns, or of the session's when it returns none) is
\* deleted from DynamoDB, best effort, and the list without it becomes
\* session['user_plantings']
DeletePlantingView_NoLogin(method, req, position, how, deleted) ==
    LET plantings == IF ResolveUserId(req) = "" THEN session ELSE PlantingsOf(req, how)
        Reply(status, id) ==
            ViewResponse("delete_planting", status, method, req, id, "none")
    IN  IF method # "POST" \/ position >= Len(plantings)
        THEN response' = Reply("redirect_index", 0) /\ UNCHANGED <<session, dynamo, nextId>>
        ELSE /\ response' = Reply("deleted", plantings[position + 1].planting_id)
             /\ dynamo' = delete_planting_from_dynamodb(
                              dynamo, plantings[position + 1].planting_id, deleted)
             /\ session' = Pop(plantings, position)
             /\ UNCHANGED nextId
DeletePlantingView(method, req, position, how, deleted) ==
    LET plantings == PlantingsOf(req, how)
        Reply(status, id) ==
            ViewResponse("delete_planting", status, method, req, id, "none")
    IN  IF method # "POST"
        THEN response' = Reply("redirect_index", 0) /\ UNCHANGED <<session, dynamo, nextId>>
        ELSE IF ResolveUserId(req) = ""
        THEN response' = Reply("redirect_login", 0) /\ UNCHANGED <<session, dynamo, nextId>>
        ELSE IF position >= Len(plantings)
        THEN response' = Reply("redirect_index", 0) /\ UNCHANGED <<session, dynamo, nextId>>
        ELSE /\ response' = Reply("deleted", plantings[position + 1].planting_id)
             /\ dynamo' = delete_planting_from_dynamodb(
                              dynamo, plantings[position + 1].planting_id, deleted)
             /\ session' = Pop(plantings, position)
             /\ UNCHANGED nextId

DeletePlanting ==
    /\ \E method \in {"GET", "POST"}, req \in Identities, position \in Positions,
          how \in {"gsi", "scan", "error"}, deleted \in BOOLEAN :
            DeletePlantingView(method, req, position, how, deleted)
    /\ UNCHANGED <<calcVars, authVars, callVars>>

-----------------------------------------------------------------------------
(* SpecViews: one request to a planting view, on a session and a table
   that have seen earlier saves *)

\* a planting an earlier save_planting of the user recorded (with the empty
\* plan of the fallback), under an id of its own
Earlier(req, id) == NewPlanting(req, Basil, Today - 5, <<>>, id)

\* the session and the table after earlier requests: nothing, one planting
\* of the Cognito user, or also one of the Django user; one more save is
\* within the bound
InitViews ==
    /\ crop_name = <<>>
    /\ planting_date = DateMin
    /\ plant_data = <<>>
    /\ result = NoResult
    /\ pc = "idle"
    /\ session \in { <<>>, <<Earlier(CognitoUser, 101)>>,
                     <<Earlier(CognitoUser, 101), Earlier(DjangoUser, 102)>> }
    /\ dynamo \in { <<>>, <<Earlier(CognitoUser, 101)>>,
                    <<Earlier(CognitoUser, 101), Earlier(DjangoUser, 103)>> }
    /\ response = NoResponse
    /\ nextId = MaxSaves - 1
    /\ Unused({"auth", "call"})

\* each view as the one request of the behaviour
AddRequest == response = NoResponse /\ AddPlanting
SaveRequest == response = NoResponse /\ SavePlanting
EditRequest == response = NoResponse /\ EditPlanting
UpdateRequest == response = NoResponse /\ UpdatePlanting
DeleteRequest == response = NoResponse /\ DeletePlanting

NextViews ==
    AddRequest \/ SaveRequest \/ EditRequest \/ UpdateRequest \/ DeleteRequest

SpecViews == InitViews /\ [][NextViews]_vars

-----------------------------------------------------------------------------
(***************************************************************************)
(* CognitoTokenMiddleware (tracker/middleware.py).                         *)
(*                                                                         *)
(* A token is "" (None, absent), "junk" (not a JWT) or a JWT of the user   *)
(* sub-1.  The session keeps the id token twice, under 'id_token' and in   *)
(* the dict 'cognito_tokens', which also keeps the refresh token.          *)
(***************************************************************************)
Jwts == {"jwt-1", "jwt-2"}

\* request.session's token keys; cognito_tokens is <<>> when the key is absent
SessionTokens(id_token, cognito_tokens) ==
    [id_token |-> id_token, cognito_tokens |-> cognito_tokens]

CognitoTokens(id_token, refresh_token) ==
    <<[id_token |-> id_token, refresh_token |-> refresh_token]>>

\* session.get('cognito_tokens', {}).get(key)
TokensGet(s, key) ==
    IF s.cognito_tokens = <<>> THEN ""
    ELSE IF key = "id_token" THEN s.cognito_tokens[1].id_token
    ELSE s.cognito_tokens[1].refresh_token

\* verify_id_token returns the payload: the JWKS could be fetched and the
\* token passes the signature, expiry and audience checks
Verifies(token, jwks) == jwks /\ token \in Jwts

\* pyjwt.decode(token, options={"verify_signature": False}) returns the payload
Decodes(token, pyjwt) == pyjwt /\ token \in Jwts

\* payload.get('sub') or payload.get('username') or payload.get('email')
PayloadUser(token) == IF token \in Jwts THEN "sub-1" ELSE ""

NoRefresh == "none"

\* What the middleware did: the token it examined, how it read the payload
\* ("verified", "decoded", "none", "skipped", "session_error"), whether it
\* called the token endpoint, request.cognito_user_id, whether the request
\* went on to the view (get_response) or was answered with a redirect, and
\* the session token keys before and after.
MwResult(s, path, id_token, how, refresh, user, new_tokens) ==
    [path |-> path, id_token |-> id_token, how |-> how, refresh |-> refresh,
     cognito_user_id |-> user, view |-> TRUE, redirect |-> "",
     before |-> s, session |-> new_tokens]

\* the last-resort decode of the original token (lines 101-110, 114-123)
LastResort(s, path, id_token, refresh, pyjwt, new_tokens) ==
    IF Decodes(id_token, pyjwt)
    THEN MwResult(s, path, id_token, "decoded", refresh, PayloadUser(id_token),
                  new_tokens)
    ELSE MwResult(s, path, id_token, "none", refresh, "", new_tokens)

\* _refresh_with_refresh_token and what follows it (lines 78-110).
\* outcome: the token endpoint raises (ok = FALSE) or answers these tokens
Refreshed(s, path, id_token, outcome, jwks2, pyjwt) ==
    IF ~outcome.ok
    THEN LastResort(s, path, id_token, "fail", pyjwt, s)
    ELSE LET stored ==
                 SessionTokens(outcome.id_token,
                               CognitoTokens(outcome.id_token,
                                             outcome.refresh_token))
         IN  IF outcome.id_token = ""
             THEN MwResult(s, path, id_token, "none", "ok", "", stored)
             ELSE IF Verifies(outcome.id_token, jwks2)
             THEN MwResult(s, path, id_token, "verified", "ok",
                           PayloadUser(outcome.id_token), stored)
             ELSE IF Decodes(outcome.id_token, pyjwt)
             THEN MwResult(s, path, id_token, "decoded", "ok",
                           PayloadUser(outcome.id_token), stored)
             ELSE \* the decode raises inside the try block of the refresh
                  LastResort(s, path, id_token, "ok_then_error", pyjwt, stored)

RefreshOutcomes ==
    {[ok |-> FALSE, id_token |-> "", refresh_token |-> ""]}
    \cup [ok : {TRUE}, id_token : {"", "junk", "jwt-2"},
          refresh_token : {"", "refresh-2"}]

\* CognitoTokenMiddleware.__call__ on the session token keys s
CognitoTokenMiddleware(s, path, session_ok, jwks, pyjwt, outcome, jwks2) ==
    LET id_token == IF s.id_token # "" THEN s.id_token
                    ELSE TokensGet(s, "id_token")
        refresh_token == TokensGet(s, "refresh_token")
    IN  IF path \in {"/auth/callback/", "/auth/login/"}
        THEN MwResult(s, path, "", "skipped", NoRefresh, "", s)
        ELSE IF ~session_ok
        THEN MwResult(s, path, "", "session_error", NoRefresh, "", s)
        ELSE IF id_token = ""
        THEN MwResult(s, path, "", "none", NoRefresh, "", s)
        ELSE IF Verifies(id_token, jwks)
        THEN MwResult(s, path, id_token, "verified", NoRefresh,
                      PayloadUser(id_token), s)
        ELSE IF Decodes(id_token, pyjwt)
        THEN MwResult(s, path, id_token, "decoded", NoRefresh,
                      PayloadUser(id_token), s)
        ELSE IF refresh_token # ""
        THEN Refreshed(s, path, id_token, outcome, jwks2, pyjwt)
        ELSE LastResort(s, path, id_token, NoRefresh, pyjwt, s)

Middleware ==
    \E path \in {"/", "/auth/login/", "/auth/callback/", "/auth/logout/"},
       session_ok, jwks, pyjwt, jwks2 \in BOOLEAN, outcome \in RefreshOutcomes :
        LET r == CognitoTokenMiddleware(tokens, path, session_ok, jwks, pyjwt,
                                        outcome, jwks2)
        IN  /\ mw' = r
            /\ tokens' = r.session
            /\ UNCHANGED <<calcVars, appVars, callVars>>

(***************************************************************************)
(* SpecAuth: requests of one browser session through the middleware.  The  *)
(* session starts as cognito_callback or cognito_logout leave it: both     *)
(* copies of the id token agree, or no token key is set.                   *)
(***************************************************************************)
InitAuth ==
    /\ tokens \in {SessionTokens("", <<>>)}
                  \cup { SessionTokens(i, CognitoTokens(i, r)) :
                           i \in {"", "junk", "jwt-1"}, r \in {"", "refresh-1"} }
    /\ mw = MwResult(SessionTokens("", <<>>), "", "", "none", NoRefresh, "",
                     SessionTokens("", <<>>))
    /\ crop_name = <<>>
    /\ planting_date = DateMin
    /\ plant_data = <<>>
    /\ result = NoResult
    /\ pc = "idle"
    /\ session = <<>>
    /\ dynamo = <<>>
    /\ response = NoResponse
    /\ nextId = 0
    /\ Unused({"call"})

SpecAuth == InitAuth /\ [][Middleware]_vars

-----------------------------------------------------------------------------
(***************************************************************************)
(* The Cognito post confirmation trigger (lambda/post_confirmation_lambda) *)
(*                                                                         *)
(* An event is a dict (k = "dict") or None (k = "null").  Its key          *)
(* 'request' is missing, None or a dict whose 'userAttributes' are given   *)
(* here directly; an attribute that is absent is "".                       *)
(***************************************************************************)
UserAttributes(sub, email, name, given_name, preferred_username) ==
    [k |-> "dict", sub |-> sub, email |-> email, name |-> name,
     given_name |-> given_name, preferred_username |-> preferred_username]

NoUserAttributes(k) ==
    [k |-> k, sub |-> "", email |-> "", name |-> "", given_name |-> "",
     preferred_username |-> ""]

Event(k, userName, request) ==
    [k |-> k, userName |-> userName, request |-> request]

Events ==
    LET Requests ==
            {NoUserAttributes("missing"), NoUserAttributes("null")}
            \cup { UserAttributes(s, e, n, g, p) :
                     s \in {"", "sub-1"}, e \in {"", "alice@example.org"},
                     n \in {"", "Alice"}, g \in {"", "Al"}, p \in {"", "alice"} }
    IN  {Event("null", "", NoUserAttributes("missing"))}
        \cup { Event("dict", u, r) : u \in {"", "alice"}, r \in Requests }

\* _build_attrs, with the None values removed (line 72): the user item
\* without its partition key; "" marks an attribute left out
_build_attrs(event) ==
    [user_id |-> event.request.sub,
     email |-> event.request.email,
     name |-> IF event.request.name # "" THEN event.request.name
              ELSE event.request.given_name,
     preferred_username |-> event.request.preferred_username]

\* what a call of lambda_handler gives: the value returned (or raised = TRUE),
\* the branch taken and the items put into the users table
LambdaResult(value, outcome, items) ==
    [done |-> TRUE, value |-> value, raised |-> FALSE, outcome |-> outcome,
     items |-> items]

PutResult_Raises(event, put) ==
    [done |-> TRUE, value |-> event, raised |-> TRUE, outcome |-> put,
     items |-> <<>>]

\* put_item raised: the error is logged and the event returned (lines 96-103)
PutResult(event, put) ==
    LambdaResult(event, put, <<>>)

\* lambda_handler(event, context); DYNAMO_TABLE is the environment variable
\* DYNAMO_USERS_TABLE, table_init whether boto3 could build the table, put
\* the outcome of put_item: "ok", "ClientError" or "Exception"
lambda_handler(event, DYNAMO_TABLE, table_init, put) ==
    IF event.k # "dict"
    THEN LambdaResult(event, "fatal", <<>>)         \* event.get raises, line 57
    ELSE IF DYNAMO_TABLE = ""
    THEN LambdaResult(event, "not_configured", <<>>)
    ELSE IF event.userName = ""
    THEN LambdaResult(event, "no_user_name", <<>>)
    ELSE IF event.request.k = "null"
    THEN LambdaResult(event, "fatal", <<>>)         \* None.get raises, line 40
    ELSE IF _build_attrs(event) =
               [user_id |-> "", email |-> "", name |-> "", preferred_username |-> ""]
    THEN LambdaResult(event, "no_attrs", <<>>)
    ELSE IF ~table_init
    THEN LambdaResult(event, "no_table", <<>>)
    ELSE IF put = "ok"
    THEN LambdaResult(event, "put_item",
                      <<[username |-> event.userName,
                         attrs |-> _build_attrs(event)]>>)
    ELSE PutResult(event, put)

LambdaCalls ==
    [fn : {"lambda_handler"}, event : Events, DYNAMO_TABLE : {"", "users"}]

LambdaHandler ==
    /\ call.fn = "lambda_handler"
    /\ ~ret.done
    /\ \E table_init \in BOOLEAN, put \in {"ok", "ClientError", "Exception"} :
           ret' = lambda_handler(call.event, call.DYNAMO_TABLE, table_init, put)
    /\ UNCHANGED <<calcVars, appVars, authVars, call>>

-----------------------------------------------------------------------------
(***************************************************************************)
(* The notification preference on the users table (dynamodb_helper.py).    *)
(*                                                                         *)
(* A users table is the sequence of its items in the order a Scan reads    *)
(* them.  An item has the partition key username, the attribute user_id    *)
(* and notifications_enabled: "on" (True), "off" (False) or "unset".       *)
(***************************************************************************)
UserItem(username, user_id, pref) ==
    [username |-> username, user_id |-> user_id, notifications_enabled |-> pref]

UsersTables ==
    LET Prefs == {"on", "off", "unset"}
        alice == { UserItem("alice", "sub-1", p) : p \in Prefs }
        bob   == { UserItem("bob", "sub-2", p) : p \in Prefs }
    IN  {<<>>}
        \cup { <<a>> : a \in alice }
        \cup { <<a, b>> : a \in alice, b \in bob }
        \cup { <<b, a>> : a \in alice, b \in bob }

\* table.get_item(Key={pk_name: key}).get("Item"): <<>> or <<item>>
GetItem(table, key) ==
    LET Keyed(item) == item.username = key
    IN  SelectSeq(table, Keyed)

\* table.scan(FilterExpression=Attr("user_id").eq(user_id), Limit=1): Limit
\* bounds the items the scan evaluates, the filter is applied to those
ScanLimit1(table, user_id) ==
    LET Matches(item) == item.user_id = user_id
    IN  IF table = <<>> THEN <<>> ELSE SelectSeq(<<table[1]>>, Matches)

\* bool(item.get("notifications_enabled", True))
PrefValue(item) == item.notifications_enabled # "off"

PrefResult(value, error) ==
    [done |-> TRUE, value |-> value, error |-> error]

\* get_user_notification_preference(username_or_userid); get is the outcome
\* of get_item ("ok", "ClientError", "Exception"), scan_ok that of the scan
get_user_notification_preference(table, username_or_userid, get, scan_ok) ==
    LET item  == GetItem(table, username_or_userid)
        items == ScanLimit1(table, username_or_userid)
    IN  IF get = "Exception"
        THEN PrefResult(TRUE, "get_item")
        ELSE IF get = "ok" /\ item # <<>> /\ item[1].notifications_enabled # "unset"
        THEN PrefResult(PrefValue(item[1]), "none")
        ELSE IF ~scan_ok
        THEN PrefResult(TRUE, "scan")
        ELSE IF items # <<>>
        THEN PrefResult(PrefValue(items[1]), IF get = "ok" THEN "none" ELSE "get_item")
        ELSE PrefResult(TRUE, IF get = "ok" THEN "none" ELSE "get_item")

PrefCalls ==
    [fn : {"get_user_notification_preference"}, table : UsersTables,
     username_or_userid : {"alice", "sub-1", "sub-2", "carol"}]

GetUserNotificationPreference ==
    /\ call.fn = "get_user_notification_preference"
    /\ ~ret.done
    /\ \E get \in {"ok", "ClientError", "Exception"}, scan_ok \in BOOLEAN :
           ret' = get_user_notification_preference(call.table,
                      call.username_or_userid, get, scan_ok)
    /\ UNCHANGED <<calcVars, appVars, authVars, call>>

-----------------------------------------------------------------------------
(***************************************************************************)
(* save_planting_to_dynamodb and load_user_plantings called directly       *)
(* (dynamodb_helper.py).  A planting handed to save_planting_to_dynamodb   *)
(* is a dict or an object; planting_id and id are 0 when absent (for an    *)
(* object id stands for pk or id, and there is no planting_id).            *)
(***************************************************************************)
Planting(kind, planting_id, id, user_id, username) ==
    [kind |-> kind, planting_id |-> planting_id, id |-> id,
     user_id |-> user_id, username |-> username]

Plantings ==
    { Planting("dict", p, i, u, n) :
        p \in {0, 101}, i \in {0, 201}, u \in {"", "sub-1"}, n \in {"", "alice"} }
    \cup { Planting("object", 0, i, u, n) :
        i \in {0, 201}, u \in {"", "sub-1"}, n \in {"", "alice"} }

PlantingId_AlwaysNew(planting, uuid) == uuid

\* lines 231-235: item.get("planting_id") or item.get("id") or uuid4(),
\* for an object pk or id or uuid4()
PlantingId(planting, uuid) ==
    IF planting.kind = "dict" /\ planting.planting_id # 0 THEN planting.planting_id
    ELSE IF planting.id # 0 THEN planting.id
    ELSE uuid

\* lines 230-248: the item save_planting_to_dynamodb builds
PlantingItem(planting, uuid) ==
    [crop_name |-> Basil, planting_date |-> IsoFormat(Today - 5), plan |-> <<>>,
     user_id |-> planting.user_id, username |-> planting.username,
     planting_id |-> PlantingId(planting, uuid)]

SaveCalls ==
    [fn : {"save_planting_to_dynamodb"}, planting : Plantings,
     table : {<<>>, <<NewPlanting(CognitoUser, Basil, Today - 9, <<>>, 101)>>}]

SavePlantingToDynamodb ==
    /\ call.fn = "save_planting_to_dynamodb"
    /\ ~ret.done
    /\ \E put_ok \in BOOLEAN :
         LET uuid  == nextId + 1
             drawn == PlantingId(call.planting, uuid) = uuid
             saved == save_planting_to_dynamodb(call.table,
                          PlantingItem(call.planting, uuid), put_ok)
         IN  /\ ret' = [done |-> TRUE, value |-> saved.id, table |-> saved.table,
                        put_ok |-> put_ok, uuid |-> IF drawn THEN uuid ELSE 0]
             /\ nextId' = IF drawn THEN uuid ELSE nextId
    /\ UNCHANGED <<session, dynamo, response>>
    /\ UNCHANGED <<calcVars, authVars, call>>

\* dynamodb_helper.py lines 270-329: the first definition of
\* load_user_plantings, which the second definition replaces when the module
\* is loaded: the GSI query, the scan by user_id, the scan by username
load_user_plantings_shadowed(table, user_identifier, how) ==
    LET ByUserId(item) == item.user_id = user_identifier
        ByUsername(item) == item.username = user_identifier
    IN  IF how = "error" THEN <<>>
        ELSE IF SelectSeq(table, ByUserId) # <<>> THEN SelectSeq(table, ByUserId)
        ELSE SelectSeq(table, ByUsername)

LoadCalls ==
    [fn : {"load_user_plantings"},
     user_identifier : {"sub-1", "alice", "django_7", "carol", "bob"},
     table : {<<>>,
              <<NewPlanting(CognitoUser, Basil, Today - 9, <<>>, 101)>>,
              <<NewPlanting(CognitoUser, Basil, Today - 9, <<>>, 101),
                NewPlanting(DjangoUser, Basil, Today - 5, <<>>, 103)>>}]

LoadUserPlantings ==
    /\ call.fn = "load_user_plantings"
    /\ ~ret.done
    /\ \E how \in {"gsi", "scan", "error"} :
           ret' = [done |-> TRUE, how |-> how,
                   value |-> load_user_plantings(call.table,
                                                 call.user_identifier, how)]
    /\ UNCHANGED <<calcVars, appVars, authVars, call>>

(***************************************************************************)
(* SpecHelper: one call of a function that is run on its own: the Lambda   *)
(* trigger or a helper of dynamodb_helper.py, on any of its inputs.        *)
(***************************************************************************)
InitHelper ==
    /\ call \in LambdaCalls \cup PrefCalls \cup SaveCalls \cup LoadCalls
    /\ ret = [done |-> FALSE]
    /\ crop_name = <<>>
    /\ planting_date = DateMin
    /\ plant_data = <<>>
    /\ result = NoResult
    /\ pc = "idle"
    /\ session = <<>>
    /\ dynamo = <<>>
    /\ response = NoResponse
    /\ nextId = 0
    /\ Unused({"auth"})

NextHelper ==
    \/ LambdaHandler
    \/ GetUserNotificationPreference
    \/ SavePlantingToDynamodb
    \/ LoadUserPlantings

SpecHelper == InitHelper /\ [][NextHelper]_vars

-----------------------------------------------------------------------------
(* Claims about calculate_plan (checked under SpecCalc) *)

\* the plant the finished call found, and its care_schedule
FoundInfo == FindPlant(crop_name, plant_data).info
CropFound ==
    /\ pc = "done"
    /\ plant_data # <<>>
    /\ FindPlant(crop_name, plant_data).exc = "none"
    /\ Truthy(FoundInfo)
    /\ FoundInfo.k = "dict"
CareSchedule ==
    IF "care_schedule" \in FoundInfo.d.keys THEN FoundInfo.d.cs ELSE <<>>

\* the entry's days_after_planting converts to an integer
Convertible(item) == IntOf(item.days).ok

\* the entry has no offset, or an offset that does not convert
Skippable(item) ==
    \/ item.days.k \in {"missing", "null"}
    \/ (item.days.k = "str" /\ item.days.s = <<>>)
    \/ ~IntOf(item.days).ok

\* the {task, due_date} a care_schedule entry stands for: the sum is the
\* plain sum of the date and the offset, whether or not it is a date
ExpectedEntry(item) ==
    [task |-> TaskTitle(item), due_date |-> planting_date + IntOf(item.days).n]
ExpectedOf(cs) ==
    LET kept == SelectSeq(cs, Convertible)
    IN  [i \in 1..Len(kept) |-> ExpectedEntry(kept[i])]
Expected == ExpectedOf(CareSchedule)

\* every due date of the schedule is a date (0001-01-01 .. 9999-12-31)
InRange ==
    \A i \in 1..Len(Expected) :
        Expected[i].due_date >= DateMin /\ Expected[i].due_date <= DateMax

Count(s, e) == Cardinality({i \in 1..Len(s) : s[i] = e})

\* p holds the entries of q, each as often as q does, and no others
SameEntries(p, q) ==
    /\ Len(p) = Len(q)
    /\ \A i \in 1..Len(q) : Count(p, q[i]) = Count(q, q[i])

C2_Sorted ==
    (CropFound /\ result.exc = "none") =>
        /\ \A i, j \in 1..Len(result.plan) :
              i < j => result.plan[i].due_date <= result.plan[j].due_date
        /\ \A i \in 1..Len(result.plan) :
              LET SameDay(e) == e.due_date = result.plan[i].due_date
              IN  SelectSeq(result.plan, SameDay) = SelectSeq(Expected, SameDay)

\* a care_schedule whose offsets are in decreasing order, both kept
C2_Witness ==
    /\ CropFound
    /\ result.exc = "none"
    /\ Len(CareSchedule) = 2
    /\ Len(result.plan) = 2
    /\ Convertible(CareSchedule[1]) /\ Convertible(CareSchedule[2])
    /\ IntOf(CareSchedule[1].days).n > IntOf(CareSchedule[2].days).n
    /\ result.plan[1].task = TaskTitle(CareSchedule[2])
    /\ result.plan[1].task # result.plan[2].task

\* the outcome of the call on the same table with the skippable entries
\* taken out of the care_schedule
Unskippable(item) == ~Skippable(item)
WithoutSkipped ==
    PlanOfInfo(DictValue(PlantDict(<<>>, SelectSeq(CareSchedule, Unskippable))),
               planting_date)

SkipStatement ==
    /\ result.exc = "none"
    /\ Len(result.plan) = Cardinality({i \in 1..Len(CareSchedule) : ~Skippable(CareSchedule[i])})
    /\ result = WithoutSkipped
    /\ \A i \in 1..Len(CareSchedule) :
          (CareSchedule[i].days.k = "int" /\ CareSchedule[i].days.n = 0) =>
              \E j \in 1..Len(result.plan) :
                  /\ result.plan[j].task = TaskTitle(CareSchedule[i])
                  /\ result.plan[j].due_date = planting_date

FlatTable == ~HasKey(plant_data, PLANTS)

\* the keys that equal crop_name when case is ignored
CaseMatches ==
    {i \in 1..Len(plant_data) : Lower(plant_data[i].key) = Lower(crop_name)}

\* the matching key by precedence: the exact-case key, else the title-cased
\* key, else the first key that matches ignoring case
ChosenKey ==
    IF \E i \in CaseMatches : plant_data[i].key = crop_name THEN crop_name
    ELSE IF \E i \in CaseMatches : plant_data[i].key = Title(crop_name)
         THEN Title(crop_name)
    ELSE plant_data[CHOOSE i \in CaseMatches : \A j \in CaseMatches : i <= j].key

\* C4: for a crop name that equals a key of the table when case is ignored,
\* the outcome is the plan of the schedule stored under the key chosen by
\* precedence (exact case, then title case, then first match ignoring case),
\* and equals the outcome of the call with that key as the crop name.
C4_CaseInsensitive ==
    (pc = "done" /\ FlatTable /\ CaseMatches # {}) =>
        LET v == GetKey(plant_data, ChosenKey)
        IN  /\ result = (IF Truthy(v) THEN PlanOfInfo(v, planting_date)
                                      ELSE Returns(<<>>))
            /\ result = calculate_plan(ChosenKey, planting_date, plant_data)

\* crop_name is no key, its title-cased form is the second key, and the
\* first key also matches ignoring case but holds another schedule
C4_Witness ==
    /\ pc = "done"
    /\ FlatTable
    /\ Len(plant_data) = 2
    /\ crop_name \notin {plant_data[1].key, plant_data[2].key}
    /\ plant_data[2].key = Title(crop_name)
    /\ Lower(plant_data[1].key) = Lower(crop_name)
    /\ result.exc = "none"
    /\ result.plan # <<>>
    /\ Truthy(plant_data[1].value)
    /\ result # PlanOfInfo(plant_data[1].value, planting_date)

\* crop_name names a plant of the table: a key of the flat structure, or the
\* name of a plant of the old structure's list, ignoring case
NamesPlant ==
    \/ \E i \in 1..Len(plant_data) :
          /\ plant_data[i].value.k = "dict"
          /\ Lower(plant_data[i].key) = Lower(crop_name)
    \/ \E i \in 1..Len(plant_data) :
          /\ plant_data[i].key = PLANTS
          /\ plant_data[i].value.k = "list"
          /\ \E j \in 1..Len(plant_data[i].value.l) :
                Lower(plant_data[i].value.l[j].name) = Lower(crop_name)

\* C5 as stated: whatever the crop name and the reference data (flat or
\* with a 'plants' array), the call returns a list and raises nothing; the
\* list is empty when the data is empty, when the crop name names no plant
\* in it, and when the plant has no care_schedule.
C5_Orig ==
    pc = "done" =>
        /\ result.exc = "none"
        /\ (plant_data = <<>> \/ ~NamesPlant) => result.plan = <<>>
        /\ (CropFound /\ CareSchedule = <<>>) => result.plan = <<>>

-----------------------------------------------------------------------------
(* Claims about save_planting and index (checked under Spec) *)

\* the response reports a planting that save_planting recorded
Saved == response.op = "save_planting" /\ response.status = "saved"

\* the planting date the form of the reported request carried
PostedDate == ToOrdinal(response.planting_date.y, response.planting_date.m,
                        response.planting_date.d)

\* a calculated plan with the date of every task as 'YYYY-MM-DD'
IsoPlan(plan) ==
    [i \in DOMAIN plan |->
        LET ymd == FromOrdinal(plan[i].due_date)
        IN  [task |-> plan[i].task, due_date |-> IsoStr(ymd[1], ymd[2], ymd[3])]]

\* the plan stored with the planting just recorded is this one, in the
\* session and, where the write went through, in DynamoDB
StoredPlanIs(plan) ==
    /\ session # <<>>
    /\ session[Len(session)].planting_id = response.planting_id
    /\ session[Len(session)].plan = plan
    /\ response.put_ok =>
          \E i \in 1..Len(dynamo) :
              /\ dynamo[i].planting_id = response.planting_id
              /\ dynamo[i].plan = plan

\* C7 as stated: the plan stored with a recorded planting, in the session
\* and in DynamoDB, is the plan calculator's result for the submitted crop
\* name and planting date over the plant data, with every due_date as its
\* ISO date string.
C7_Orig ==
    Saved =>
        StoredPlanIs(IsoPlan(calculate_plan(response.crop_name, PostedDate,
                                            load_plant_data).plan))

\* C7, amended: the plan stored with a recorded planting, in the session
\* and in DynamoDB, is the result of the callable _get_calculate_plan
\* returns for the submitted crop name and planting date over the plant
\* data, with every due_date as its ISO date string: the calculator's plan
\* where the plan module was imported, the empty list where it was not.
C7_StoredPlan ==
    Saved =>
        StoredPlanIs(IF response.plan_module = "module"
                     THEN IsoPlan(calculate_plan(response.crop_name, PostedDate,
                                                 load_plant_data).plan)
                     ELSE <<>>)

\* a planting of basil recorded with the calculator's two dated tasks (the
\* entry without offset left out), written to DynamoDB as well
C7_Witness ==
    /\ Saved
    /\ response.plan_module = "module"
    /\ response.put_ok
    /\ Len(session[Len(session)].plan) = 2
    /\ session[Len(session)].plan[2].due_date = IsoFormat(PostedDate + 10)
    /\ \E i \in 1..Len(dynamo) : dynamo[i] = session[Len(session)]

\* the response is a page rendered by index
Rendered == response.op = "index" /\ response.status = "ok"

\* a stored date value is a string naming a date of the calendar
IsDate(v) ==
    /\ v.k = "str"
    /\ v.y \in 1..9999
    /\ v.m \in 1..12
    /\ v.d \in 1..DaysInMonth(v.y, v.m)

\* the tasks of a plan that have a due date
DatedTasks(plan) == {j \in 1..Len(plan) : IsDate(plan[j].due_date)}

\* days from today to the harvest date of a plan with a dated task: the due
\* date of the last such task
DaysToHarvest(plan) ==
    LET j == CHOOSE k \in DatedTasks(plan) : \A n \in DatedTasks(plan) : n <= k
        due == plan[j].due_date
    IN  ToOrdinal(due.y, due.m, due.d) - Today

\* the list the claim gives a planting with a parseable planting_date
ListOf(planting) ==
    IF DatedTasks(planting.plan) = {} THEN "ongoing"
    ELSE IF DaysToHarvest(planting.plan) < 0 THEN "past"
    ELSE IF DaysToHarvest(planting.plan) <= 7 THEN "upcoming"
    ELSE "ongoing"

\* how often the loaded planting at position i is shown in a list
Shown(list, i) ==
    Cardinality({n \in 1..Len(list) : list[n].id = i - 1})

\* C8: on a page index renders, every loaded planting with a parseable
\* planting_date is in exactly one of the lists past, upcoming and ongoing:
\* in past when its harvest date (the due date of the last plan task that
\* has one) is before today, in upcoming when it is today or at most 7 days
\* ahead, in ongoing when it is more than 7 days ahead or no task is dated;
\* a planting without usable planting_date is in none of the lists.
C8_Lists ==
    Rendered =>
        \A i \in 1..Len(response.loaded) :
            LET p == response.loaded[i]
                InPast == Shown(response.past, i)
                InUpcoming == Shown(response.upcoming, i)
                InOngoing == Shown(response.ongoing, i)
            IN  IF IsDate(p.planting_date)
                THEN /\ InPast + InUpcoming + InOngoing = 1
                     /\ InPast = 1 <=> ListOf(p) = "past"
                     /\ InUpcoming = 1 <=> ListOf(p) = "upcoming"
                     /\ InOngoing = 1 <=> ListOf(p) = "ongoing"
                ELSE InPast + InUpcoming + InOngoing = 0

\* a page on which all three lists are filled, a planting is left out, one
\* harvest is exactly 7 days ahead, and a planting whose last task has no
\* date is listed by the date of an earlier task
C8_Witness ==
    /\ Rendered
    /\ response.past # <<>> /\ response.upcoming # <<>> /\ response.ongoing # <<>>
    /\ Len(response.past) + Len(response.upcoming) + Len(response.ongoing)
          < Len(response.loaded)
    /\ \E n \in 1..Len(response.upcoming) :
          DaysToHarvest(response.loaded[response.upcoming[n].id + 1].plan) = 7
    /\ \E n \in 1..Len(response.past) :
          LET plan == response.loaded[response.past[n].id + 1].plan
          IN  Len(plan) \notin DatedTasks(plan)

\* the planting with this planting_id is shown in one of the lists
Displays(resp, id) ==
    \/ \E n \in 1..Len(resp.past) : resp.past[n].planting_id = id
    \/ \E n \in 1..Len(resp.upcoming) : resp.upcoming[n].planting_id = id
    \/ \E n \in 1..Len(resp.ongoing) : resp.ongoing[n].planting_id = id

\* C9 as stated: the index request that follows a completed save_planting
\* of the same user on the same session is answered with a page that shows
\* the new planting, whether or not the DynamoDB write succeeded and
\* whatever plantings DynamoDB already holds for that user.
C9_Orig ==
    (/\ response.op = "index"
     /\ response.after_save # NoSave
     /\ response.after_save.user_id = response.user_id)
        => /\ response.status = "ok"
           /\ Displays(response, response.after_save.planting_id)

\* C10 as stated: a save_planting request that is a POST of a user with
\* crop_name and planting_date appends exactly one record to the session's
\* plantings and keeps the earlier records in order.
C10_Orig ==
    [][(/\ response'.op = "save_planting"
        /\ response'.method = "POST"
        /\ response'.user_id # ""
        /\ response'.crop_name # <<>>
        /\ response'.planting_date.k # "missing")
          => /\ Len(session') = Len(session) + 1
             /\ SubSeq(session', 1, Len(session)) = session]_vars

-----------------------------------------------------------------------------
(* Claims about the planting views (checked under SpecViews) *)

PlantingViews ==
    {"add_planting_view", "save_planting", "edit_planting_view",
     "update_planting", "delete_planting"}

\* the step is a request to a planting view for which no user identity is
\* resolved (no Cognito payload, no user_id in the session, no Django user)
AnonymousRequest ==
    /\ response' # response
    /\ response'.op \in PlantingViews
    /\ response'.user_id = ""

\* the step uploads nothing to S3, writes and deletes nothing in DynamoDB
\* and leaves session['user_plantings'] as it is
NoEffect ==
    /\ response'.upload = "none"
    /\ dynamo' = dynamo
    /\ session' = session

\* C11 as stated: when no user identity can be resolved, each of the five
\* planting views redirects to login and performs no S3 upload, no DynamoDB
\* write or delete and no change to session['user_plantings'].
C11_Orig ==
    [][AnonymousRequest => (response'.status = "redirect_login" /\ NoEffect)]_vars

\* C11, amended: when no user identity can be resolved, each of the five
\* planting views performs no S3 upload, no DynamoDB write or delete and no
\* change to session['user_plantings']; add_planting_view and
\* edit_planting_view redirect to login, and so do save_planting,
\* update_planting and delete_planting for a POST, while they redirect any
\* other request to index.
C11_RequiresLogin ==
    [][AnonymousRequest =>
        /\ NoEffect
        /\ response'.status =
              IF response'.method = "POST"
                 \/ response'.op \in {"add_planting_view", "edit_planting_view"}
              THEN "redirect_login" ELSE "redirect_index"]_vars

\* an anonymous POST to delete_planting was redirected to login while the
\* session and the table hold plantings
C11_Witness ==
    /\ response.op = "delete_planting"
    /\ response.method = "POST"
    /\ response.user_id = ""
    /\ response.status = "redirect_login"
    /\ Len(session) = 2
    /\ Len(dynamo) = 2

-----------------------------------------------------------------------------
(* Claims about CognitoTokenMiddleware (checked under SpecAuth) *)

\* the middleware examined an id token of the session and verify_id_token
\* raised for it
VerificationFailed ==
    /\ mw.id_token # ""
    /\ ~(mw.how = "verified" /\ mw.refresh = NoRefresh)

\* the session held a refresh token when the request arrived
HadRefreshToken == TokensGet(mw.before, "refresh_token") # ""

\* C12: whenever the verification of the session's id token fails and the
\* session holds a refresh token, the middleware calls the token endpoint to
\* refresh the tokens before it hands the request to the view.
C12_Orig ==
    (VerificationFailed /\ HadRefreshToken) => mw.refresh # NoRefresh

\* C13: whenever the id token cannot be validated and the refresh fails, the
\* request is answered with a redirect to the Cognito Hosted UI login and
\* does not reach the view.
C13_Orig ==
    (VerificationFailed /\ mw.refresh = "fail")
        => (mw.redirect = "hosted_ui" /\ ~mw.view)

-----------------------------------------------------------------------------
(* Claims about the Lambda trigger and the helpers (checked under SpecHelper) *)

LambdaReturned == call.fn = "lambda_handler" /\ ret.done

\* C14: lambda_handler returns the event it received, and raises nothing,
\* for every event and every outcome: table not configured, userName
\* missing, no attributes, table initialisation failure, ClientError or any
\* other exception of put_item, any exception elsewhere.
C14_ReturnsEvent ==
    LambdaReturned =>
        /\ ~ret.raised
        /\ ret.value = call.event
        /\ ret.outcome \in {"fatal", "not_configured", "no_user_name", "no_attrs",
                            "no_table", "put_item", "ClientError", "Exception"}

\* put_item raised ClientError for a complete event, and the event came back
C14_Witness ==
    /\ LambdaReturned
    /\ ret.outcome = "ClientError"
    /\ call.event.userName = "alice"
    /\ call.event.request.sub = "sub-1"
    /\ ret.value = call.event

PrefReturned == call.fn = "get_user_notification_preference" /\ ret.done

\* the preferences stored for the identity: on the item whose primary key
\* it is, else on the items whose user_id it is
StoredPrefs ==
    LET id == call.username_or_userid
        byKey == { i \in 1..Len(call.table) :
                     /\ call.table[i].username = id
                     /\ call.table[i].notifications_enabled # "unset" }
        byUserId == { i \in 1..Len(call.table) :
                        /\ call.table[i].user_id = id
                        /\ call.table[i].notifications_enabled # "unset" }
    IN  { call.table[i].notifications_enabled :
            i \in IF byKey # {} THEN byKey ELSE byUserId }

\* C15: get_user_notification_preference returns True when no preference is
\* stored for the identity (no item by primary key or by user_id, or the
\* item lacks notifications_enabled) and when DynamoDB fails; otherwise it
\* returns the stored value.
C15_Orig ==
    PrefReturned =>
        /\ ret.error # "none" => (ret.error = "get_item" \/ ret.value = TRUE)
        /\ (ret.error = "none" /\ StoredPrefs = {}) => ret.value = TRUE
        /\ (ret.error = "none" /\ StoredPrefs # {})
               => StoredPrefs = {IF ret.value THEN "on" ELSE "off"}

SaveReturned == call.fn = "save_planting_to_dynamodb" /\ ret.done

\* the table holds the item of this call under the id the call returned
ItemWritten ==
    \E i \in 1..Len(ret.table) :
        /\ ret.table[i].planting_id = ret.value
        /\ ret.table[i].planting_date = [k |-> "str", y |-> 2024, m |-> 6, d |-> 10]
        /\ ret.table[i].user_id = call.planting.user_id
        /\ ret.table[i].username = call.planting.username

\* an id (0: None) is returned exactly when the item was written, a failure
\* leaves the table as it was, and a planting with neither user_id nor
\* username is not written
SaveOutcome ==
    /\ ret.value # 0 <=> ItemWritten
    /\ ret.value = 0 => ret.table = call.table
    /\ ret.value # 0 => Len(ret.table) <= Len(call.table) + 1
    /\ (call.planting.user_id = "" /\ call.planting.username = "")
           => (ret.value = 0 /\ ret.table = call.table)

\* C16 as stated: ... and the planting_id already present is kept, otherwise
\* a new id is generated.
C16_Orig ==
    SaveReturned =>
        /\ SaveOutcome
        /\ ret.value # 0 =>
              IF call.planting.planting_id # 0
              THEN ret.value = call.planting.planting_id
              ELSE ret.uuid # 0 /\ ret.value = ret.uuid

\* C16: save_planting_to_dynamodb returns the planting id exactly when the
\* item was written and None on every failure; it writes nothing and returns
\* None without user_id and username; the id is the dict's planting_id when
\* present, else the dict's id (an object's pk or id), and a newly generated
\* one only when neither is present.
C16_KeepsId ==
    SaveReturned =>
        /\ SaveOutcome
        /\ ret.value # 0 =>
              IF call.planting.kind = "dict" /\ call.planting.planting_id # 0
              THEN ret.value = call.planting.planting_id /\ ret.uuid = 0
              ELSE IF call.planting.id # 0
              THEN ret.value = call.planting.id /\ ret.uuid = 0
              ELSE ret.uuid = nextId /\ ret.value = ret.uuid /\ nextId = 1

\* a dict with planting_id and id replaced the table's item of that
\* planting_id
C16_Witness ==
    /\ SaveReturned
    /\ call.planting.kind = "dict"
    /\ call.planting.planting_id = 101
    /\ call.planting.id = 201
    /\ call.table # <<>>
    /\ ret.value = 101
    /\ Len(ret.table) = 1
    /\ ret.table # call.table

LoadReturned == call.fn = "load_user_plantings" /\ ret.done

\* C17: load_user_plantings returns the items of the first of three steps
\* that yields any: the GSI query on user_id, the scan filtered by user_id,
\* the scan filtered by username; the empty list if none does or on error.
C17_Orig ==
    LoadReturned =>
        LET ByUserId(item) == item.user_id = call.user_identifier
            ByUsername(item) == item.username = call.user_identifier
        IN  ret.value =
                IF ret.how = "error" THEN <<>>
                ELSE IF SelectSeq(call.table, ByUserId) # <<>>
                THEN SelectSeq(call.table, ByUserId)
                ELSE SelectSeq(call.table, ByUsername)

-----------------------------------------------------------------------------
(* Claims about the session fallback of index (checked under Spec) *)

\* index resolved a user id, DynamoDB gave it no plantings, and the session
\* holds plantings
SessionFallback ==
    /\ response.op = "index"
    /\ response.user_id # ""
    /\ session # <<>>
    /\ \/ response.load = "error"
       \/ \A i \in 1..Len(dynamo) : dynamo[i].user_id # response.user_id

\* the session plantings recorded for the resolved user
OwnSessionPlantings ==
    LET Own(p) == p.user_id = response.user_id
    IN  SelectSeq(session, Own)

\* C18: when index resolves a user id and falls back to the session, the
\* page renders and shows exactly the session plantings of that user, also
\* when the session holds plantings of another user.
C18_Orig ==
    SessionFallback =>
        /\ response.status = "ok"
        /\ response.loaded = OwnSessionPlantings

=============================================================================
